---- MODULE Spec2Model ----
(***************************************************************************)
(* Request admission (RateLimiter + UnsplashAPI) of the splash-bot         *)
(* repository.  The repository holds two entry points with the same core:  *)
(* src/main.py (python-telegram-bot) and src/bot.py (aiogram).  The        *)
(* variable program says which of the two is running; the two differ in    *)
(* the purge comparison of the limiter and in a few details noted at the   *)
(* definitions.                                                            *)
(*                                                                         *)
(* Handlers are coroutines.  A step of the model is the code a coroutine   *)
(* runs between two suspension points (an await that really yields: the    *)
(* HTTP round trip).  bot.py's dispatcher (start_polling) runs the handler *)
(* of every update as a task of its own, so several may be in flight at    *)
(* once; main.py's Application is built without concurrent_updates and     *)
(* awaits the handler of one update before it takes the next.              *)
(*                                                                         *)
(* Time is an integer clock; timestamps are the clock's values.            *)
(*                                                                         *)
(* Spec is request admission in both programs.  LifeSpec adds the end of   *)
(* the run loop.  SessionSpec is main.py with the search sessions its      *)
(* handlers keep in bot_data, the text messages and the buttons; its       *)
(* handlers are built from the steps of Spec.  SharedSpec is main.py with  *)
(* the sessions of every user of a chat.                                   *)
(***************************************************************************)
EXTENDS Integers, Sequences, FiniteSets, TLC

\* RateLimiter(max_requests, time_window): scaled down from 50 / 3600.
max_requests == 2
time_window == 2
\* Number of handler coroutines that may be in flight together.
NumTasks == 2
\* The clock stops here: one tick past the age at which an entry recorded at
\* time 0 is purged by both programs.
MaxTime == 3

\* Longest result list a search returns (per_page=5 in search_photos).
MaxResults == 3

Tasks == 1..NumTasks
Programs == {"main", "bot"}
Ops == {"random", "search"}
\* HTTP statuses the image API may answer with: a success, the smallest
\* status of the >= 400 test, the throttle status, an error above it.
Statuses == {200, 400, 429, 500}
\* Transport failures of session.get: asyncio.TimeoutError, aiohttp.ClientError.
Failures == {"timeout", "client_error"}
\* What reading the body of a response yields: a photo with or without
\* links.download_location, an empty result list, a failure while reading.
Bodies == {"dl", "nodl", "empty", "broken"}
\* A response: its status and, where the code goes on to read it, its body.
Responses ==
    {<<s, b>> : s \in {x \in Statuses : x < 400}, b \in Bodies}
        \cup {<<s, "unread">> : s \in {x \in Statuses : x >= 400}}

\* Strings that the code splits at "_" are sequences of the pieces between
\* the underscores: "next_c1_u1" is <<"next", "c1", "u1">>.
Chats == {"c1"}
Users == {"u1", "u2"}
\* The users who search; every user of a chat can press the buttons.
Searchers == {"u1"}
\* key = f"{chat_id}_{user_id}"
session_key(chat_id, user_id) == <<chat_id, user_id>>
Keys == {session_key(c, u) : c \in Chats, u \in Users}
\* What a user searches for.
Queries == {"ocean", "cat"}
\* The filters of the filter keyboard.
FilterKinds ==
    {<<"landscape">>, <<"portrait">>, <<"black", "and", "white">>,
     <<"blue">>, <<"green">>, <<"red">>}
\* The callback_data of every button the code builds, for every key: buttons
\* stay in the chat when the process (and with it bot_data) is gone, so a
\* query may name a key the store does not hold.
CallbackData ==
    {<<"refresh", "random">>, <<"filters">>, <<"back">>}
        \cup {<<a>> \o k : a \in {"prev", "refresh", "next", "filters"}, k \in Keys}
        \cup {<<"filter">> \o f \o k : f \in FilterKinds, k \in Keys \cup {<<>>}}

VARIABLES
    program,    \* "main" or "bot": which script is running
    now,        \* datetime.now()
    requests,   \* RateLimiter.requests: deque of timestamps, oldest first
    session,    \* the ClientSession objects UnsplashAPI has created, each
                \* "open" or "closed"; self.session is the last (<<>>: None)
    pc,         \* per handler: "idle", "inflight", "send", "tracking"
                \* ("stopped": the run loop has ended)
    op,         \* per handler in flight: the API operation it called
    photo,      \* per handler holding a photo: "dl" (the photo has
                \* links.download_location) or "nodl"
    seen,       \* per handler in flight: the len(self.requests) that the
                \* can_request() admitting its call compared with
                \* max_requests (history variable; 0 with no call in flight)
    reply,      \* the message the latest step sent to the chat ("none": none)
    tracked,    \* how the tracking GET that the latest step saw end had ended:
                \* "ok" or "failed" ("none": the step ended no tracking GET)
    search_data,\* context.bot_data["search_data"]: dict from key to
                \* {"results", "query", "index"} (main.py)
    ctx,        \* main.py, the handler in progress: what it was asked, the
                \* parameters of its call, the photo it is about to send
    shown,      \* the photo the latest step sent to the chat (None: none)
    handled     \* main.py, what the handler that started last was given
                \* (history variable): a run of next_<key> presses, a plain
                \* text of a group, or anything else

store == <<search_data, ctx, shown, handled>>
vars ==
    <<program, now, requests, session, pc, op, photo, seen, reply, tracked,
      search_data, ctx, shown, handled>>

----------------------------------------------------------------------------
\* RateLimiter

\* the subtraction the wrong way round: no entry ever expires
main_expired_swapped(ts, t) == (ts - t) > time_window
\* main.py:41 and :55: (now - self.requests[0]) > timedelta(seconds=time_window)
main_expired(ts, t) == (t - ts) > time_window

\* bot.py:23 and :32: (now - self.requests[0]).total_seconds() >= 3600
bot_expired(ts, t) == (t - ts) >= time_window

expired(ts, t) == IF program = "main" THEN main_expired(ts, t) ELSE bot_expired(ts, t)

\* a purge that pops at most one entry (if in place of while)
purge_once(reqs, t) ==
    IF reqs # <<>> /\ expired(Head(reqs), t) THEN Tail(reqs) ELSE reqs

\* while self.requests and <expired>: self.requests.popleft()
RECURSIVE purge(_, _)
purge(reqs, t) ==
    IF reqs # <<>> /\ expired(Head(reqs), t) THEN purge(Tail(reqs), t) ELSE reqs

\* <= in place of <
below_quota_inclusive(reqs) == Len(reqs) <= max_requests
\* return len(self.requests) < max_requests, on the purged deque
below_quota(reqs) == Len(reqs) < max_requests

\* can_request(): its return value at time t
can_request(reqs, t) == below_quota(purge(reqs, t))

\* add_request() / add(): self.requests.append(datetime.now())
add_request(reqs, t) == Append(reqs, t)

\* get_remaining() / remaining(): its return value at time t
get_remaining(reqs, t) == max_requests - Len(purge(reqs, t))

\* Python's None where the value is otherwise a tuple
None == <<>>

\* get_reset_time() at time t (main.py only; it purges nothing): None on an
\* empty deque and when oldest + time_window is not after t, else the time
\* left as f"{minutes}:{seconds:02d}", here the pair <<minutes, seconds>>.
get_reset_time(reqs, t) ==
    IF reqs = <<>> THEN None
    ELSE LET remaining == (reqs[1] + time_window) - t IN
         IF remaining > 0 THEN <<remaining \div 60, remaining % 60>> ELSE None

\* No handler in progress.  A parameter that is "" is not passed.
NoCtx ==
    [action |-> "none", key |-> None, query |-> "",
     orientation |-> None, color |-> None, item |-> None]

\* handled after a handler that was neither a next_<key> press on a session
\* nor a plain text of a group
NoUpdate == [kind |-> "other", key |-> None, from |-> 0, count |-> 0]

----------------------------------------------------------------------------
Init ==
    /\ program \in Programs
    /\ now = 0
    /\ requests = <<>>
       \* main.py's run() awaits init_session() before polling starts;
       \* bot.py creates the session on the first call.
    /\ session = IF program = "main" THEN <<"open">> ELSE <<>>
    /\ pc = [t \in Tasks |-> "idle"]
    /\ op = [t \in Tasks |-> "none"]
    /\ photo = [t \in Tasks |-> "none"]
    /\ reply = "none"
    /\ seen = [t \in Tasks |-> 0]
    /\ tracked = "none"
       \* bot_data starts empty
    /\ search_data = <<>>
    /\ ctx = NoCtx
    /\ shown = None
    /\ handled = NoUpdate

\* Whether the dispatcher may start the handler of a new update now.
\* main.py:203 Application.builder().token(...).build(): one update at a time.
\* bot.py:248 dp.start_polling(bot, ...): every update in its own task.
dispatch_free == program = "main" => \A u \in Tasks : pc[u] = "idle"

\* an init_session() without the "if not self.session" test
init_session_always == session' = Append(session, "open")

\* init_session() / init(): if not self.session: self.session = ClientSession(...)
\* No await lies between the test and the assignment.
init_session ==
    session' = IF session = <<>> THEN <<"open">> ELSE session

\* request_begin with add_request() called before the admission test
request_begin_record_first(t, o) ==
    /\ pc[t] = "idle"
    /\ dispatch_free
    /\ requests' = purge(add_request(requests, now), now)
    /\ IF below_quota(requests')
       THEN /\ init_session
            /\ pc' = [pc EXCEPT ![t] = "inflight"]
            /\ op' = [op EXCEPT ![t] = o]
            /\ seen' = [seen EXCEPT ![t] = Len(requests')]
            /\ reply' = "none"
       ELSE /\ reply' = "QuotaExceeded"
            /\ UNCHANGED <<session, pc, op, seen>>
    /\ tracked' = "none"
    /\ UNCHANGED <<program, now, photo>>

\* A handler calls get_random_photo / search_photos: _request() up to the
\* suspension in session.get().  can_request() purges; a refusal raises, and
\* the handler's except clause sends the error text.
request_begin(t, o) ==
    /\ pc[t] = "idle"
    /\ dispatch_free
    /\ requests' = purge(requests, now)
    /\ IF can_request(requests, now)
       THEN /\ init_session
            /\ pc' = [pc EXCEPT ![t] = "inflight"]
            /\ op' = [op EXCEPT ![t] = o]
            /\ seen' = [seen EXCEPT ![t] = Len(requests')]
            /\ reply' = "none"
       ELSE /\ reply' = "QuotaExceeded"
            /\ UNCHANGED <<session, pc, op, seen>>
    /\ tracked' = "none"
    /\ UNCHANGED <<program, now, photo>>

\* The handler ends by sending text e: its except clause after an error, or
\* the "no results" text.
reply_text(t, e) ==
    /\ reply' = e
    /\ pc' = [pc EXCEPT ![t] = "idle"]
    /\ op' = [op EXCEPT ![t] = "none"]
    /\ UNCHANGED photo

\* request_response with the >= 400 test ahead of the 429 test
request_response_generic_first(t, status, body) ==
    /\ pc[t] = "inflight"
    /\ body = "empty" => op[t] = "search"
    /\ requests' = add_request(requests, now)
    /\ seen' = [seen EXCEPT ![t] = 0]
    /\ IF status >= 400 THEN reply_text(t, "UpstreamError")
       ELSE IF status = 429 THEN reply_text(t, "UpstreamThrottled")
       ELSE IF body = "broken" THEN reply_text(t, "NetworkError")
       ELSE IF body = "empty" THEN reply_text(t, "EmptyResult")
       ELSE /\ photo' = [photo EXCEPT ![t] = body]
            /\ pc' = [pc EXCEPT ![t] = "send"]
            /\ op' = [op EXCEPT ![t] = "none"]
            /\ reply' = "none"
    /\ tracked' = "none"
    /\ UNCHANGED <<program, now, session>>

\* The HTTP response of an admitted call arrives (the body of "async with
\* self.session.get(...) as response"): add_request(), then the status tests,
\* then the body is read.  body is what reading it yields: a photo with or
\* without links.download_location, an empty result list (search only), or a
\* failure while reading (aiohttp.ClientError / asyncio.TimeoutError).
request_response(t, status, body) ==
    /\ pc[t] = "inflight"
    /\ body = "empty" => op[t] = "search"
    /\ requests' = add_request(requests, now)
    /\ seen' = [seen EXCEPT ![t] = 0]
    /\ IF status = 429 THEN reply_text(t, "UpstreamThrottled")
       ELSE IF status >= 400 THEN reply_text(t, "UpstreamError")
       ELSE IF body = "broken" THEN reply_text(t, "NetworkError")
       ELSE IF body = "empty" THEN reply_text(t, "EmptyResult")
       ELSE /\ photo' = [photo EXCEPT ![t] = body]
            /\ pc' = [pc EXCEPT ![t] = "send"]
            /\ op' = [op EXCEPT ![t] = "none"]
            /\ reply' = "none"
    /\ tracked' = "none"
    /\ UNCHANGED <<program, now, session>>

\* session.get() of an admitted call raises before any response arrives: the
\* body of the "async with" never runs.
request_failure(t, f) ==
    /\ pc[t] = "inflight"
    /\ reply_text(t, IF f = "timeout" THEN "NetworkTimeout" ELSE "NetworkError")
    /\ seen' = [seen EXCEPT ![t] = 0]
    /\ tracked' = "none"
    /\ UNCHANGED <<program, now, requests, session>>

\* The photo goes out to the chat.
photo_sent(t) ==
    /\ pc' = [pc EXCEPT ![t] = "idle"]
    /\ photo' = [photo EXCEPT ![t] = "none"]
    /\ reply' = "Photo"

\* _send_photo / send_photo_message up to the suspension in track_download:
\* the caption reads get_stats() (get_remaining purges), then a photo with
\* links.download_location is tracked: init_session() and session.get(), with
\* no call to the limiter.  A photo without it is sent at once.
send_photo(t) ==
    /\ pc[t] = "send"
    /\ requests' = purge(requests, now)
    /\ IF photo[t] = "dl"
       THEN /\ init_session
            /\ pc' = [pc EXCEPT ![t] = "tracking"]
            /\ reply' = "none"
            /\ UNCHANGED photo
       ELSE /\ photo_sent(t)
            /\ UNCHANGED session
    /\ tracked' = "none"
    /\ UNCHANGED <<program, now, op, seen>>

\* a track_download without the except clause: the failure of the tracking
\* GET reaches the handler, whose except clause sends the error text
track_done_propagating(t, ok) ==
    /\ pc[t] = "tracking"
    /\ ok \in BOOLEAN
    /\ tracked' = IF ok THEN "ok" ELSE "failed"
    /\ IF ok
       THEN photo_sent(t)
       ELSE /\ reply' = "NetworkError"
            /\ pc' = [pc EXCEPT ![t] = "idle"]
            /\ photo' = [photo EXCEPT ![t] = "none"]
    /\ UNCHANGED <<program, now, requests, session, op, seen>>

\* The tracking GET ends, well or not (except: pass); the photo is sent.
track_done(t, ok) ==
    /\ pc[t] = "tracking"
    /\ ok \in BOOLEAN
    /\ tracked' = IF ok THEN "ok" ELSE "failed"
    /\ photo_sent(t)
    /\ UNCHANGED <<program, now, requests, session, op, seen>>

\* /stats (main.py) and /start (bot.py) read get_remaining() / remaining().
stats ==
    /\ dispatch_free
    /\ requests' = purge(requests, now)
    /\ reply' = "Stats"
    /\ tracked' = "none"
    /\ UNCHANGED <<program, now, session, pc, op, photo, seen>>

\* Time passes.
Tick ==
    /\ now < MaxTime
    /\ now' = now + 1
    /\ reply' = "none"
    /\ tracked' = "none"
    /\ UNCHANGED <<program, requests, session, pc, op, photo, seen>>

\* Request admission in both programs; what main.py's handlers keep in
\* bot_data is left out here (SessionSpec below has it).
Next ==
    \/ \E t \in Tasks, o \in Ops : request_begin(t, o) /\ UNCHANGED store
    \/ \E t \in Tasks, r \in Responses :
          request_response(t, r[1], r[2]) /\ UNCHANGED store
    \/ \E t \in Tasks, f \in Failures : request_failure(t, f) /\ UNCHANGED store
    \/ \E t \in Tasks : send_photo(t) /\ UNCHANGED store
    \/ \E t \in Tasks, ok \in BOOLEAN : track_done(t, ok) /\ UNCHANGED store
    \/ stats /\ UNCHANGED store
    \/ Tick /\ UNCHANGED store

Spec == Init /\ [][Next]_vars

----------------------------------------------------------------------------
\* The life of the process: the run loop ends

\* close_session() / close(): if self.session: await self.session.close()
close_session ==
    session' = IF session = <<>> THEN session
               ELSE [session EXCEPT ![Len(session)] = "closed"]

running == \A t \in Tasks : pc[t] # "stopped"

\* The run loop ends (main.py: asyncio.Event().wait() is cancelled; bot.py:
\* start_polling returns or raises) and the finally clause closes the
\* session; the process exits, its handlers with it.
shutdown ==
    /\ running
    /\ close_session
    /\ pc' = [t \in Tasks |-> "stopped"]
    /\ op' = [t \in Tasks |-> "none"]
    /\ photo' = [t \in Tasks |-> "none"]
    /\ seen' = [t \in Tasks |-> 0]
    /\ reply' = "none"
    /\ tracked' = "none"
    /\ UNCHANGED <<program, now, requests, store>>

\* The steps of Next while the run loop runs, and its end.
LifeNext ==
    \/ \E t \in Tasks, o \in Ops :
          running /\ request_begin(t, o) /\ UNCHANGED store
    \/ \E t \in Tasks, r \in Responses :
          running /\ request_response(t, r[1], r[2]) /\ UNCHANGED store
    \/ \E t \in Tasks, f \in Failures :
          running /\ request_failure(t, f) /\ UNCHANGED store
    \/ \E t \in Tasks : running /\ send_photo(t) /\ UNCHANGED store
    \/ \E t \in Tasks, ok \in BOOLEAN :
          running /\ track_done(t, ok) /\ UNCHANGED store
    \/ running /\ stats /\ UNCHANGED store
    \/ running /\ Tick /\ UNCHANGED store
    \/ shutdown

LifeSpec == Init /\ [][LifeNext]_vars

----------------------------------------------------------------------------
\* main.py: the handlers and the search sessions they keep in bot_data

\* data.split("_", maxsplit): the list of parts
split(data, maxsplit) ==
    IF Len(data) <= maxsplit
    THEN [i \in 1..Len(data) |-> <<data[i]>>]
    ELSE [i \in 1..(maxsplit + 1) |->
            IF i <= maxsplit THEN <<data[i]>>
            ELSE SubSeq(data, maxsplit + 1, Len(data))]

\* The photos of a response: n of them for a search (results["results"]), one
\* for /photos/random.  A photo is <<query, position, links>>; links says
\* whether it has links.download_location.
photos(o, query, n, links) ==
    IF o = "random" THEN << <<query, 0, links>> >>
    ELSE [i \in 1..n |-> <<query, i, links>>]

\* truthy whatever the list holds
results_found_any(results) == TRUE
\* results.get("results") is truthy
results_found(results) == results # <<>>

\* a session whose cursor starts past the end of its results
new_session_past_end(query, results) ==
    [results |-> results, query |-> query, index |-> Len(results)]
\* the dict entry bot_data["search_data"][key] is written by search_photos
new_session(query, results) ==
    [results |-> results, query |-> query, index |-> 0]

\* setdefault in place of assignment: a session already there stays
put_if_absent(d, key, value) ==
    [k \in DOMAIN d \cup {key} |-> IF k \in DOMAIN d THEN d[k] ELSE value]
\* d[key] = value
put(d, key, value) ==
    [k \in DOMAIN d \cup {key} |-> IF k = key THEN value ELSE d[k]]

\* a next computed from the cursor the session was stored with, not from the
\* cursor it has now
next_index_stale(current_index, len) == 1 % len
\* (current_index + 1) % len(results)
next_index(current_index, len) == (current_index + 1) % len
\* a prev that stops at the first photo
prev_index_clamped(current_index, len) ==
    IF current_index = 0 THEN 0 ELSE current_index - 1
\* (current_index - 1) % len(results): Python's % takes the divisor's sign
prev_index(current_index, len) == (current_index - 1) % len

\* a refresh that drops the query
refresh_query_dropped(search) == ""
\* get_random_photo(query=search_data["query"])
refresh_query(search) == search.query

\* A handler calls the API with the parameters of c: _request() up to the
\* suspension; a refusal ends the handler with the error text.
call(t, o, c) ==
    /\ request_begin(t, o)
    /\ ctx' = IF pc'[t] = "inflight" THEN c ELSE NoCtx
    /\ shown' = None
    /\ UNCHANGED search_data

\* search_photos that writes the session entry before it calls the API
search_photos_store_first(t, key, query) ==
    /\ request_begin(t, "search")
    /\ ctx' = IF pc'[t] = "inflight"
              THEN [NoCtx EXCEPT !.action = "search", !.key = key, !.query = query]
              ELSE NoCtx
    /\ shown' = None
    /\ search_data' = put(search_data, key, new_session(query, <<>>))

\* search_photos (from /search or a text message) up to the suspension of its
\* call: search_photos(query=query, per_page=5).
search_photos(t, key, query) ==
    call(t, "search",
         [NoCtx EXCEPT !.action = "search", !.key = key, !.query = query])

\* random_photo (/random [query]) up to the suspension of its call.
random_photo(t, query) ==
    call(t, "random", [NoCtx EXCEPT !.action = "random", !.query = query])

\* button_handler, next_<key> / prev_<key> with a session: the index moves,
\* the message is deleted, _send_photo(results[current_index]) follows.
navigate(t, action, key) ==
    /\ pc[t] = "idle"
    /\ dispatch_free
    /\ LET results == search_data[key].results
           current_index ==
               IF action = <<"next">>
               THEN next_index(search_data[key].index, Len(results))
               ELSE prev_index(search_data[key].index, Len(results))
       IN /\ search_data' = [search_data EXCEPT ![key].index = current_index]
          /\ ctx' = [NoCtx EXCEPT !.action = action[1], !.key = key,
                                  !.item = results[current_index + 1]]
          /\ photo' = [photo EXCEPT ![t] = results[current_index + 1][3]]
    /\ pc' = [pc EXCEPT ![t] = "send"]
    /\ reply' = "none"
    /\ tracked' = "none"
    /\ shown' = None
    /\ UNCHANGED <<program, now, requests, session, op, seen>>

\* button_handler, filter_<kind>[_<key>]: the filtered search up to the
\* suspension of its call.
apply_filter(t, data) ==
    LET parts == split(data, 2)
        filter_type == parts[2]
        key == IF Len(parts) > 2 THEN parts[3] ELSE None
        search_query ==
            IF key # None /\ key \in DOMAIN search_data
            THEN search_data[key].query ELSE "random"
    IN call(t, "search",
            IF filter_type \in {<<"landscape">>, <<"portrait">>, <<"squarish">>}
            THEN [NoCtx EXCEPT !.action = "filter", !.key = key,
                               !.query = search_query, !.orientation = filter_type]
            ELSE [NoCtx EXCEPT !.action = "filter", !.key = key,
                               !.query = search_query, !.color = filter_type])

\* The handler only answers the callback query and, for filters / back,
\* edits the keyboard of the message: text is "Keyboard" or "none".
no_call(t, text) ==
    /\ pc[t] = "idle"
    /\ dispatch_free
    /\ reply' = text
    /\ tracked' = "none"
    /\ shown' = None
    /\ UNCHANGED <<program, now, requests, session, pc, op, photo, seen,
                   search_data, ctx>>

\* button_handler(update, context) with query.data = data, up to its first
\* suspension in a call of the API (or to its end).
button_handler(t, data) ==
    LET parts == split(data, 1)
        action == parts[1]
        key == IF Len(parts) > 1 THEN parts[2] ELSE None
        has_search_data == key # None /\ key \in DOMAIN search_data
    IN IF data = <<"refresh", "random">>
       THEN call(t, "random", [NoCtx EXCEPT !.action = "refresh_random"])
       ELSE IF action \in {<<"next">>, <<"prev">>} /\ has_search_data
       THEN navigate(t, action, key)
       ELSE IF action = <<"refresh">> /\ has_search_data
       THEN call(t, "random",
                 [NoCtx EXCEPT !.action = "refresh", !.key = key,
                               !.query = refresh_query(search_data[key])])
       ELSE IF action = <<"filters">> THEN no_call(t, "Keyboard")
       ELSE IF action = <<"filter">> THEN apply_filter(t, data)
       ELSE IF action = <<"back">> THEN no_call(t, "Keyboard")
       ELSE no_call(t, "none")

\* The response of the handler's call arrives: _request() from the response
\* on, then the handler up to its next suspension.  n is the number of photos
\* the body lists.  search_photos stores the session and goes on to send
\* results[0]; the others go on to send the photo they got.
api_response(t, status, body, n) ==
    /\ request_response(t, status, body)
    /\ IF body \notin {"dl", "nodl"} THEN n = 0
       ELSE IF ctx.action = "search" THEN n >= 1
       ELSE n = 1
    /\ LET results == photos(op[t], ctx.query, n, body)
           read == status < 400 /\ body # "broken"
       IN /\ search_data' =
                IF ctx.action = "search" /\ read /\ results_found(results)
                THEN put(search_data, ctx.key, new_session(ctx.query, results))
                ELSE search_data
          /\ ctx' = IF pc'[t] = "send"
                    THEN [ctx EXCEPT !.item = results[1]]
                    ELSE NoCtx
    /\ shown' = None

\* The handler's call fails before a response: its except clause answers.
api_failure(t, f) ==
    /\ request_failure(t, f)
    /\ ctx' = NoCtx
    /\ shown' = None
    /\ UNCHANGED search_data

\* _send_photo up to the suspension in track_download, or to the photo sent.
sending(t) ==
    /\ send_photo(t)
    /\ shown' = IF reply' = "Photo" THEN ctx.item ELSE None
    /\ ctx' = IF pc'[t] = "idle" THEN NoCtx ELSE ctx
    /\ UNCHANGED search_data

\* _send_photo from the end of track_download on: the photo is sent.
sent(t, ok) ==
    /\ track_done(t, ok)
    /\ shown' = ctx.item
    /\ ctx' = NoCtx
    /\ UNCHANGED search_data

\* Text messages.  A text is the sequence of its pieces: words, blanks, the
\* mention of the bot; "photo cat" is <<"photo", " ", "cat">>.
ChatTypes == {"private", "group"}
\* f"@{self.bot_username}"
BotMention == "@bot"
\* the keywords of main.py:252 and :272 that are written in Latin letters
Keywords == {"photo", "image", "picture"}
Texts ==
    {<<"ocean">>, <<"cat">>, <<"photo">>, <<"Photo", " ", "cat">>,
     <<"ocean", " ", BotMention>>, <<BotMention, " ", "image", " ", "cat">>}
\* message.reply_to_message.from_user: "nobody" (no reply), the bot, a user
Messages == [reply_to : {"nobody", "bot", "u2"}, text : Texts]

\* str.lower()
lower(text) ==
    [i \in 1..Len(text) |-> IF text[i] = "Photo" THEN "photo" ELSE text[i]]
\* str.startswith(kw) for some kw of the keywords
startswith_keyword(text) == text # <<>> /\ text[1] \in Keywords
\* str.replace(old, "")
remove(text, old) == SelectSeq(text, LAMBDA piece : piece # old)
\* str.strip()
RECURSIVE strip(_)
strip(text) ==
    IF text = <<>> THEN text
    ELSE IF text[1] = " " THEN strip(Tail(text))
    ELSE IF text[Len(text)] = " " THEN strip(SubSeq(text, 1, Len(text) - 1))
    ELSE text
\* the string that a text of at most one piece is
string(text) == IF text = <<>> THEN "" ELSE text[1]

\* a _should_respond_in_group that answers every message
should_respond_always(chat_type, message) == TRUE

\* _should_respond_in_group(update) for update.message = message in a chat
\* of type chat_type
should_respond_in_group(chat_type, message) ==
    IF chat_type = "private" THEN TRUE
    ELSE IF message.reply_to = "bot" THEN TRUE
    ELSE IF \E i \in 1..Len(message.text) : message.text[i] = BotMention THEN TRUE
    ELSE startswith_keyword(lower(message.text))

\* handle_text_message(update, context) up to its first suspension in a call
\* of the API (or to its end): a message the bot is not to answer ends it at
\* once; else the mention and a leading keyword are cut off and what is left
\* is searched for.
handle_text_message(t, chat_type, chat_id, user_id, message) ==
    /\ pc[t] = "idle"
    /\ IF ~should_respond_in_group(chat_type, message) THEN no_call(t, "none")
       ELSE LET unmentioned == strip(remove(message.text, BotMention))
                query == IF startswith_keyword(lower(unmentioned))
                         THEN strip(Tail(unmentioned))
                         ELSE unmentioned
            IN IF query = <<>> THEN no_call(t, "AskQuery")
               ELSE search_photos(t, session_key(chat_id, user_id), string(query))

\* The dispatcher hands button_handler the callback query of a button that
\* user_id pressed in chat chat_id (update.effective_chat,
\* update.effective_user): button_handler reads query.data alone.
callback_query(t, chat_id, user_id, data) ==
    pc[t] = "idle" /\ button_handler(t, data)

\* handled after button_handler has started on data
after_callback(data) ==
    LET key == Tail(data) IN
    IF data[1] = "next" /\ key \in DOMAIN search_data
    THEN IF handled.kind = "next" /\ handled.key = key /\ handled.count < 2
         THEN [handled EXCEPT !.count = @ + 1]
         ELSE [kind |-> "next", key |-> key,
               from |-> search_data[key].index, count |-> 1]
    ELSE NoUpdate

\* A text with no trigger: no reply to the bot, no mention of it, no keyword
\* at its start.
plain(message) ==
    /\ message.reply_to # "bot"
    /\ \A i \in 1..Len(message.text) : message.text[i] # BotMention
    /\ message.text[1] \notin Keywords \cup {"Photo"}

\* handled after handle_text_message has started on message
after_text(chat_type, message) ==
    IF chat_type # "private" /\ plain(message)
    THEN [NoUpdate EXCEPT !.kind = "plain_group_text"]
    ELSE NoUpdate

\* bot.py keeps no sessions: main.py only.
SessionInit == Init /\ program = "main"

\* The dispatcher runs one handler at a time: one handler slot is all that
\* main.py uses.
Slot == 1

SessionNext ==
    \/ \E c \in Chats, u \in Searchers, q \in Queries :
          search_photos(Slot, session_key(c, u), q) /\ handled' = NoUpdate
    \/ \E ct \in ChatTypes, c \in Chats, u \in Searchers, m \in Messages :
          handle_text_message(Slot, ct, c, u, m) /\ handled' = after_text(ct, m)
    \/ \E q \in Queries \cup {""} :
          random_photo(Slot, q) /\ handled' = NoUpdate
    \/ \E c \in Chats, u \in Users, data \in CallbackData :
          callback_query(Slot, c, u, data) /\ handled' = after_callback(data)
    \/ \E r \in Responses, n \in 0..MaxResults :
          api_response(Slot, r[1], r[2], n) /\ UNCHANGED handled
    \/ \E f \in Failures : api_failure(Slot, f) /\ UNCHANGED handled
    \/ sending(Slot) /\ UNCHANGED handled
    \/ \E ok \in BOOLEAN : sent(Slot, ok) /\ UNCHANGED handled
    \/ stats /\ shown' = None /\ handled' = NoUpdate
             /\ UNCHANGED <<search_data, ctx>>

\* main.py with the search sessions of one user.  The clock stands still
\* here: nothing that the handlers keep in bot_data reads it, and the window
\* fills up to the quota as it does in Spec.
SessionSpec == SessionInit /\ [][SessionNext]_vars

\* Every user searches.
SharedNext ==
    \/ \E c \in Chats, u \in Users, q \in Queries :
          search_photos(Slot, session_key(c, u), q) /\ UNCHANGED handled
    \/ \E data \in CallbackData :
          button_handler(Slot, data) /\ UNCHANGED handled
    \/ \E r \in Responses, n \in 0..MaxResults :
          api_response(Slot, r[1], r[2], n) /\ UNCHANGED handled
    \/ \E f \in Failures : api_failure(Slot, f) /\ UNCHANGED handled
    \/ sending(Slot) /\ UNCHANGED handled
    \/ \E ok \in BOOLEAN : sent(Slot, ok) /\ UNCHANGED handled

\* main.py with the search sessions of every user of a chat.
SharedSpec == SessionInit /\ [][SharedNext]_vars

----------------------------------------------------------------------------
\* Properties

\* age of the oldest entry of a non-empty window
oldest_age == now - requests[1]

\* C1: when exactly one quota slot remains, and a handler admitted on that
\* one slot is between its can_request() and its add_request() (its call is
\* in flight), another handler that runs the admission is refused: the two
\* are never both admitted.
C1_OneSlotAdmitsOne ==
    [][\A t \in Tasks, o \in Ops :
          (/\ request_begin(t, o)
           /\ Len(purge(requests, now)) = max_requests - 1
           /\ \E u \in Tasks \ {t} :
                 pc[u] = "inflight" /\ seen[u] = max_requests - 1)
          => pc'[t] # "inflight"]_vars

\* C2: the window never holds more timestamps than the quota.
C2_Capacity == Len(requests) <= max_requests

\* C3: whatever remaining() returns lies in 0..max_requests.
C3_RemainingInRange ==
    /\ get_remaining(requests, now) >= 0
    /\ get_remaining(requests, now) <= max_requests

\* C4: every admitted random/search call, however it ends (response of any
\* status, timeout, transport failure), adds exactly one timestamp.
C4_RecordedOncePerCall ==
    [][\A t \in Tasks :
          (pc[t] = "inflight" /\ pc'[t] # "inflight")
          => requests' = Append(requests, now)]_vars

\* C5: no call to the image API (random, search, track download) is issued
\* while can_request() is false, and a finished tracking call is counted in
\* the window.
C5_NoCallBypassesQuota ==
    [][\A t \in Tasks :
          /\ (pc[t] \notin {"inflight", "tracking"}
                 /\ pc'[t] \in {"inflight", "tracking"})
             => can_request(requests, now)
          /\ (pc[t] = "tracking" /\ pc'[t] # "tracking")
             => Len(requests') = Len(requests) + 1]_vars

\* C6: with max_requests (or more) timestamps recorded and the oldest of them
\* younger than the window, can_request() is false.
C6_FullWindowRefuses ==
    (Len(requests) >= max_requests /\ oldest_age < time_window)
    => ~can_request(requests, now)

\* C6 witness: a handler was refused on a full window whose oldest entry has
\* aged, but not past the window.
C6_Witness ==
    /\ reply = "QuotaExceeded"
    /\ Len(requests) = max_requests
    /\ oldest_age > 0 /\ oldest_age < time_window

\* C7: a limiter holding exactly max_requests records refuses and has 0
\* remaining while they are all inside the window, and admits again once the
\* oldest is more than time_window old.
C7_QuotaRecovers ==
    Len(requests) = max_requests
    => /\ oldest_age < time_window
          => (~can_request(requests, now) /\ get_remaining(requests, now) = 0)
       /\ oldest_age > time_window
          => (can_request(requests, now) /\ get_remaining(requests, now) > 0)

\* C7 witness: an exhausted limiter whose oldest record is past the window.
C7_Witness == Len(requests) = max_requests /\ oldest_age > time_window

\* C8: after can_request() or remaining() every timestamp left in the window
\* is strictly younger than time_window.
C8_PurgeAtBoundary ==
    [][(stats \/ \E t \in Tasks, o \in Ops : request_begin(t, o))
          => \A i \in 1..Len(requests') : now' - requests'[i] < time_window]_vars

\* C9: a second remaining() or can_request() at the same instant, with nothing
\* recorded in between, returns what the first returned and purges nothing
\* more: on the window the first call left behind, both answers are those it
\* gave.
C9_QueriesIdempotent ==
    LET w == purge(requests, now) IN
    /\ purge(w, now) = w
    /\ can_request(w, now) = can_request(requests, now)
    /\ get_remaining(w, now) = get_remaining(requests, now)

\* C9 witness: a window from which a query purges some entries and keeps others.
C9_Witness ==
    LET w == purge(requests, now) IN w # requests /\ w # <<>>

\* C10: a random/search call made while can_request() is false replies with
\* the quota error, issues no call (no handler enters or leaves a call) and
\* appends nothing: the window is left as its own purge.
C10_RefusalConsumesNothing ==
    [][~can_request(requests, now)
       => \A t \in Tasks, o \in Ops :
             request_begin(t, o)
             => /\ reply' = "QuotaExceeded"
                /\ pc' = pc
                /\ \E k \in 0..Len(requests) :
                      requests' = SubSeq(requests, k + 1, Len(requests))]_vars

\* C10 witness: a handler was refused while another handler's call is in flight.
C10_Witness ==
    /\ reply = "QuotaExceeded"
    /\ \E t \in Tasks : pc[t] = "inflight"
    /\ \E t \in Tasks : pc[t] = "idle"

\* C11: in main.py, get_reset_time() read after a purge (as _request and
\* get_stats read it) is None only on an empty window, and on a non-empty one
\* it is the time until the oldest entry is time_window old; so the text of
\* every quota refusal carries a reset time that is not None, also when the
\* oldest entry is exactly time_window old.
C11_ResetEtaDefined ==
    [][(/\ program = "main"
        /\ stats \/ \E t \in Tasks, o \in Ops : request_begin(t, o))
       => /\ requests' # <<>>
             => LET left == (requests'[1] + time_window) - now' IN
                get_reset_time(requests', now') = <<left \div 60, left % 60>>
          /\ reply' = "QuotaExceeded"
             => get_reset_time(requests', now') # None]_vars

C19_TrackFailureSwallowed ==
    [][\A t \in Tasks :
          (pc[t] = "tracking" /\ pc'[t] # "tracking")
          => (reply' = "Photo" /\ pc'[t] = "idle")]_vars

\* C19 witness: the tracking GET failed and the photo went out all the same.
C19_Witness == tracked = "failed" /\ reply = "Photo"

\* C13: when the search of search_photos(key, query) returns n >= 1 photos,
\* the entry of the key becomes exactly {results: those photos, query: the
\* query, index: 0}, whatever was there before, and the photo the handler
\* then sends is results[0] of that entry.
C13_SearchReplacesSession ==
    [][/\ \A t \in Tasks, r \in Responses, n \in 1..MaxResults :
            (/\ api_response(t, r[1], r[2], n)
             /\ ctx.action = "search"
             /\ r[2] \in {"dl", "nodl"})
            => /\ ctx.key \in DOMAIN search_data'
               /\ search_data'[ctx.key] =
                     [results |-> [i \in 1..n |-> <<ctx.query, i, r[2]>>],
                      query |-> ctx.query, index |-> 0]
               /\ pc'[t] = "send"
       /\ (ctx.action = "search" /\ reply' = "Photo")
            => /\ shown' = search_data'[ctx.key].results[1]
               /\ search_data'[ctx.key].index = 0]_vars

\* C13 witness: the first photo of a list of several has just been sent, and
\* the session holds that list at index 0.
C13_Witness ==
    /\ reply = "Photo"
    /\ \E k \in DOMAIN search_data :
          /\ Len(search_data[k].results) > 1
          /\ search_data[k].index = 0
          /\ shown = search_data[k].results[1]

\* C14: when the search of search_photos returns no photo, bot_data is left
\* as it was (no entry for a key without one, the old entry for a key that
\* has one) and the chat is told there is no result.
C14_EmptySearchKeepsStore ==
    [][\A t \in Tasks, r \in Responses :
          (/\ api_response(t, r[1], r[2], 0)
           /\ ctx.action = "search"
           /\ r[2] = "empty")
          => (search_data' = search_data /\ reply' = "EmptyResult")]_vars

\* C14 witness: "no result" has just been answered while the key keeps a
\* session that was navigated.
C14_Witness ==
    /\ reply = "EmptyResult"
    /\ \E k \in DOMAIN search_data : search_data[k].index > 0

\* the index after count presses of next
RECURSIVE presses_of_next(_, _, _)
presses_of_next(count, current_index, len) ==
    IF count = 0 THEN current_index
    ELSE presses_of_next(count - 1, next_index(current_index, len), len)

\* C15: next_<key> / prev_<key> on a session of N photos move its index to
\* (index + 1) mod N / (index - 1) mod N and go on to send the photo there;
\* hence N presses of next from 0 come back to 0, prev from 0 gives N - 1,
\* and with 3 photos next, prev, prev from 0 gives 1, 0, 2.
C15_NavigationWraps ==
    [][\A k \in DOMAIN search_data :
          LET N == Len(search_data[k].results)
              index == search_data[k].index
          IN /\ \A t \in Tasks :
                   /\ button_handler(t, <<"next">> \o k)
                      => /\ search_data'[k].index = IF index = N - 1 THEN 0 ELSE index + 1
                         /\ pc'[t] = "send"
                         /\ ctx'.item = search_data[k].results[search_data'[k].index + 1]
                   /\ button_handler(t, <<"prev">> \o k)
                      => /\ search_data'[k].index = IF index = 0 THEN N - 1 ELSE index - 1
                         /\ pc'[t] = "send"
                         /\ ctx'.item = search_data[k].results[search_data'[k].index + 1]
             /\ presses_of_next(N, 0, N) = 0
             /\ prev_index(0, N) = N - 1
             /\ N = 3 => /\ next_index(0, N) = 1
                         /\ prev_index(next_index(0, N), N) = 0
                         /\ prev_index(prev_index(next_index(0, N), N), N) = 2]_vars

\* C15 witness: prev on the first of 3 photos has just moved the index to 2.
C15_Witness ==
    /\ ctx.action = "prev"
    /\ ctx.key \in DOMAIN search_data
    /\ Len(search_data[ctx.key].results) = 3
    /\ search_data[ctx.key].index = 2

\* C16: a next, prev, refresh or filter button whose key has no session makes
\* the handler fetch an unfiltered random photo (or be refused by the quota).
C16_MissingKeyFallsBack ==
    [][\A t \in Tasks, k \in Keys :
          \A data \in {<<a>> \o k : a \in {"next", "prev", "refresh"}}
                      \cup {<<"filter">> \o f \o k : f \in FilterKinds} :
             (button_handler(t, data) /\ k \notin DOMAIN search_data)
             => \/ reply' = "QuotaExceeded"
                \/ /\ pc'[t] = "inflight"
                   /\ op'[t] = "random"
                   /\ ctx'.query = ""
                   /\ ctx'.orientation = None
                   /\ ctx'.color = None]_vars

\* C17: refresh_<key> on a session calls get_random_photo with the session's
\* query (or is refused by the quota), and no step of that handler, however
\* its call ends, changes bot_data.
C17_RefreshKeepsSession ==
    [][/\ \A t \in Tasks, k \in DOMAIN search_data :
            button_handler(t, <<"refresh">> \o k)
            => /\ search_data' = search_data
               /\ \/ reply' = "QuotaExceeded"
                  \/ /\ pc'[t] = "inflight"
                     /\ op'[t] = "random"
                     /\ ctx'.query = search_data[k].query
       /\ ctx.action = "refresh" => search_data' = search_data]_vars

\* C17 witness: the call of a refresh is in flight with the query of a
\* session that was navigated.
C17_Witness ==
    /\ ctx.action = "refresh"
    /\ \E t \in Tasks : pc[t] = "inflight" /\ op[t] = "random"
    /\ ctx.key \in DOMAIN search_data
    /\ ctx.query = search_data[ctx.key].query
    /\ search_data[ctx.key].index > 0

\* C18: filter_<kind>_<key> on a session, for each kind of the filter
\* keyboard, searches with the session's query and the whole kind as
\* orientation or colour (or is refused by the quota), and leaves bot_data
\* as it was.
C18_FilterUsesStoredQuery ==
    [][\A t \in Tasks, k \in DOMAIN search_data, f \in FilterKinds :
          button_handler(t, <<"filter">> \o f \o k)
          => /\ search_data' = search_data
             /\ \/ reply' = "QuotaExceeded"
                \/ /\ pc'[t] = "inflight"
                   /\ op'[t] = "search"
                   /\ ctx'.query = search_data[k].query
                   /\ \/ ctx'.orientation = f /\ ctx'.color = None
                      \/ ctx'.color = f /\ ctx'.orientation = None]_vars

\* the texts of the errors of a call
ErrorTexts ==
    {"QuotaExceeded", "UpstreamThrottled", "UpstreamError", "NetworkTimeout"}

\* C20: a handler whose call is refused or fails answers with the error text
\* and is over, so that the dispatcher takes the next update; neither the
\* step that starts a call nor the step that answers the error changes
\* bot_data, so the sessions are those the handler found.
C20_ErrorsLeaveStore ==
    [][/\ reply' \in ErrorTexts
            => /\ search_data' = search_data
               /\ \A t \in Tasks : pc'[t] = "idle"
               /\ ctx' = NoCtx
       /\ (\E t \in Tasks : pc[t] = "idle" /\ pc'[t] = "inflight")
            => search_data' = search_data]_vars

\* C20 witness: a call has just timed out and the session navigated before it
\* is still there.
C20_Witness ==
    /\ reply = "NetworkTimeout"
    /\ \E k \in DOMAIN search_data : search_data[k].index > 0

C22_PhotoNotBehindTracking ==
    [][\A t \in Tasks :
          (pc[t] = "send" /\ pc'[t] # "send") => reply' = "Photo"]_vars

\* C23: while the call of one handler is in flight and the quota admits
\* another, a handler that is idle can start: its admission and its call do
\* not wait for the first call to end.
C23_CallsOverlap ==
    \A t \in Tasks :
       (/\ pc[t] = "idle"
        /\ \E u \in Tasks : pc[u] = "inflight"
        /\ can_request(requests, now))
       => ENABLED (request_begin(t, "random") /\ UNCHANGED store)

\* C24: the API client creates at most one ClientSession; a call in flight
\* (an API call or a tracking GET) runs on that one, open, session; once the
\* run loop has ended no session is left open.
C24_OneSession ==
    /\ Len(session) <= 1
    /\ \A t \in Tasks : pc[t] \in {"inflight", "tracking"} => session = <<"open">>
    /\ ~running => session \in {<<>>, <<"closed">>}

\* C24 witness: bot.py has stopped after its handlers made several calls, the
\* first of them creating the session, which is now closed.
C24_Witness ==
    /\ program = "bot"
    /\ ~running
    /\ session = <<"closed">>
    /\ Len(requests) >= 2

\* the key that the button with callback data `data` was built for
button_key(data) == SubSeq(data, Len(data) - 1, Len(data))

\* C25: every stored session has results and a cursor that points at one of
\* them; a next, prev, refresh or filter button changes neither the query nor
\* the results of any session, and changes nothing of the sessions of the
\* keys other than its own, from the press to the end of its handler.
C25_SessionsWellFormed ==
    [][search_data' # search_data =>
         /\ \A k \in DOMAIN search_data' :
               /\ search_data'[k].results # <<>>
               /\ search_data'[k].index
                    \in 0..(Len(search_data'[k].results) - 1)
         /\ pc[Slot] = "idle" =>
               \A data \in CallbackData :
                  (/\ data[1] \in {"next", "prev", "refresh", "filter"}
                   /\ Len(data) > 2
                   /\ button_handler(Slot, data))
                  => /\ DOMAIN search_data' = DOMAIN search_data
                     /\ \A k \in DOMAIN search_data :
                           /\ search_data'[k].query = search_data[k].query
                           /\ search_data'[k].results = search_data[k].results
                           /\ k # button_key(data)
                                => search_data'[k] = search_data[k]
         /\ pc[Slot] # "idle" =>
               ctx.action \notin {"next", "prev", "refresh", "filter"}]_vars

\* C25 witness: both users of the chat have a session; a prev press has just
\* moved one of them to its last photo while the other stands at its second.
C25_Witness ==
    /\ DOMAIN search_data = Keys
    /\ ctx.action = "prev"
    /\ search_data[ctx.key].index = 2
    /\ \E k \in Keys : k # ctx.key /\ search_data[k].index = 1

\* C26: a next or prev button pressed by user u in chat c moves no cursor but
\* that of the session keyed (c, u).
C26_OnlyOwnSessionMoves ==
    [][\A c \in Chats, u \in Users, data \in CallbackData :
          (/\ pc[Slot] = "idle"
           /\ data[1] \in {"next", "prev"}
           /\ callback_query(Slot, c, u, data))
          => \A k \in DOMAIN search_data :
                k # session_key(c, u)
                => search_data'[k].index = search_data[k].index]_vars

\* C27: a text of a group that is no reply to the bot, does not mention it
\* and starts with no keyword ends its handler at once: no call is started,
\* the limiter's window and the sessions stay as they are, nothing is sent.
C27_PlainGroupTextIgnored ==
    [][\A c \in Chats, u \in Searchers, m \in Messages :
          (/\ pc[Slot] = "idle"
           /\ plain(m)
           /\ handle_text_message(Slot, "group", c, u, m))
          => /\ UNCHANGED <<requests, session, pc, op, photo, search_data, ctx>>
             /\ reply' = "none"
             /\ shown' = None]_vars

\* C27 witness: a plain text of a group has just been ignored while the user
\* has a session and the quota has room for a call.
C27_Witness ==
    /\ handled.kind = "plain_group_text"
    /\ search_data # <<>>
    /\ can_request(requests, now)
    /\ \A t \in Tasks : pc[t] = "idle"
====
